---- MODULE Spec2Model ----
(***************************************************************************)
(* Model of the GitHub Contributions README Generator:                     *)
(*   github_api.py      aggregation of the contributions payload and the   *)
(*                      rendering of the Markdown document                 *)
(*   config_manager.py  the persisted configuration record                 *)
(*   main_window.py     the window handlers that call both                 *)
(*                                                                         *)
(* Strings are TLA+ strings.  A document is the sequence of the string     *)
(* pieces that the f-strings and "\n".join concatenate, so the empty       *)
(* string is the empty sequence.  Python's ordinal string order is         *)
(* computed on the code points of the strings of the model (CodePoints).   *)
(***************************************************************************)
EXTENDS Integers, Sequences, FiniteSets, TLC

\* ------------------------------------------------------------------------
\* Bounds of the model
\* ------------------------------------------------------------------------
MaxEntries == 2

\* ------------------------------------------------------------------------
\* Python strings: ordinal order
\* ------------------------------------------------------------------------
GithubPrefix == <<104,116,116,112,115,58,47,47,103,105,116,104,117,98,46,99,111,109,47>>

NameCodePoints ==
  [n \in {"b/r", "b/rr", "a/p", "Z/f"} |->
     CASE n = "b/r"  -> <<98,47,114>>
       [] n = "b/rr" -> <<98,47,114,114>>
       [] n = "a/p"  -> <<97,47,112>>
       [] n = "Z/f"  -> <<90,47,102>>]

UrlOf(n) == "https://github.com/" \o n

CodePoints(s) ==
  IF s \in DOMAIN NameCodePoints THEN NameCodePoints[s]
  ELSE LET n == CHOOSE m \in DOMAIN NameCodePoints : UrlOf(m) = s
       IN  GithubPrefix \o NameCodePoints[n]

\* a < b for two sequences of code points (str.__lt__)
RECURSIVE SeqLess(_, _)
SeqLess(a, b) ==
  IF a = <<>> THEN b # <<>>
  ELSE IF b = <<>> THEN FALSE
  ELSE IF Head(a) # Head(b) THEN Head(a) < Head(b)
  ELSE SeqLess(Tail(a), Tail(b))

StrLess(s, t) == SeqLess(CodePoints(s), CodePoints(t))

\* (name, url) tuples compare lexicographically (tuple.__lt__)
TupleLess(p, q) ==
  \/ StrLess(p[1], q[1])
  \/ p[1] = q[1] /\ StrLess(p[2], q[2])

\* ------------------------------------------------------------------------
\* The contributions payload (data.user of the GraphQL response)
\* ------------------------------------------------------------------------
\* repository { nameWithOwner url isPrivate isFork }
Repo(n, private, fork) ==
  [nameWithOwner |-> n, url |-> UrlOf(n), isPrivate |-> private, isFork |-> fork]

RepoA == Repo("b/r",  FALSE, FALSE)
RepoB == Repo("b/rr", FALSE, FALSE)
RepoP == Repo("a/p",  TRUE,  FALSE)
RepoF == Repo("Z/f",  FALSE, TRUE)
Repositories == {RepoA, RepoB, RepoP, RepoF}

CommitField == "commitContributionsByRepository"
PRField     == "pullRequestContributionsByRepository"
IssueField  == "issueContributionsByRepository"
ReviewField == "pullRequestReviewContributionsByRepository"
RepoField   == "repositoryContributions"
CurrentYearFields == {CommitField, PRField, IssueField, ReviewField, RepoField}
YearFields        == {CommitField, PRField, RepoField}

CCPrefix == "contributionsCollection"
\* a key is the sequence of the pieces it is made of: the alias of a
\* historical block is the prefix followed by the year
CurrentKey   == <<CCPrefix>>
YearKey(y)   == <<CCPrefix, ToString(y)>>
\* slip: every key passes for a prefixed one
startswith_any(key, prefix) == Len(key) >= 1
startswith(key, prefix) == Len(key) >= 1 /\ key[1] = prefix

\* the value of a key: an object (a map from the fields present to the
\* list of the repositories of their items) or null
Object(fields) == [kind |-> "object", fields |-> fields]
Null           == [kind |-> "null"]
Truthy(v)      == v.kind = "object" /\ DOMAIN v.fields # {}

\* dict.get(field, []) on a block
Get(cc, field) == IF field \in DOMAIN cc.fields THEN cc.fields[field] ELSE <<>>

\* ------------------------------------------------------------------------
\* github_api.py: the aggregator
\* ------------------------------------------------------------------------
\* the working sets of _extract_repositories_data
EmptySets == [repos_commit |-> {}, repos_pr |-> {}, repos_all |-> {}]

\* target names the set passed as repo_set: "commit", "pr", or "none" for
\* the throwaway set()
\* slip: forks are admitted
add_repo_if_valid_forks(target, repo, st) ==
  IF ~repo.isPrivate
  THEN LET repo_tuple == <<repo.nameWithOwner, repo.url>>
       IN  [repos_commit |-> IF target = "commit" THEN st.repos_commit \cup {repo_tuple}
                                                  ELSE st.repos_commit,
            repos_pr     |-> IF target = "pr" THEN st.repos_pr \cup {repo_tuple}
                                              ELSE st.repos_pr,
            repos_all    |-> st.repos_all \cup {repo_tuple}]
  ELSE st

add_repo_if_valid(target, repo, st) ==
  IF ~repo.isPrivate /\ ~repo.isFork
  THEN LET repo_tuple == <<repo.nameWithOwner, repo.url>>
       IN  [repos_commit |-> IF target = "commit" THEN st.repos_commit \cup {repo_tuple}
                                                  ELSE st.repos_commit,
            repos_pr     |-> IF target = "pr" THEN st.repos_pr \cup {repo_tuple}
                                              ELSE st.repos_pr,
            repos_all    |-> st.repos_all \cup {repo_tuple}]
  ELSE st

\* one for loop over the items of a field
RECURSIVE AddItems(_, _, _)
AddItems(items, target, st) ==
  IF items = <<>> THEN st
  ELSE AddItems(Tail(items), target, add_repo_if_valid(target, Head(items), st))

\* slip: only the first item of the commit field is looked at
process_contribution_collection_first_commit(cc, st, is_current_year) ==
  LET commits == Get(cc, CommitField)
      s1 == AddItems(IF commits = <<>> THEN <<>> ELSE <<Head(commits)>>, "commit", st)
      s2 == AddItems(Get(cc, PRField), "pr", s1)
      s3 == IF is_current_year
            THEN AddItems(Get(cc, ReviewField), "none",
                          AddItems(Get(cc, IssueField), "none", s2))
            ELSE s2
  IN  AddItems(Get(cc, RepoField), "none", s3)

\* slip: issues and reviews are read in the block of every year
process_contribution_collection_all_years(cc, st, is_current_year) ==
  LET s1 == AddItems(Get(cc, CommitField), "commit", st)
      s2 == AddItems(Get(cc, PRField), "pr", s1)
      s3 == AddItems(Get(cc, ReviewField), "none",
                     AddItems(Get(cc, IssueField), "none", s2))
  IN  AddItems(Get(cc, RepoField), "none", s3)

process_contribution_collection(cc, st, is_current_year) ==
  LET s1 == AddItems(Get(cc, CommitField), "commit", st)
      s2 == AddItems(Get(cc, PRField), "pr", s1)
      s3 == IF is_current_year
            THEN AddItems(Get(cc, ReviewField), "none",
                          AddItems(Get(cc, IssueField), "none", s2))
            ELSE s2
  IN  AddItems(Get(cc, RepoField), "none", s3)

\* the for loop over user_data.items()
RECURSIVE ProcessBlocks(_, _)
ProcessBlocks(blocks, st) ==
  IF blocks = <<>> THEN st
  ELSE LET key == Head(blocks).key
           cc  == Head(blocks).val
       IN  IF ~startswith(key, CCPrefix) \/ ~Truthy(cc)
           THEN ProcessBlocks(Tail(blocks), st)
           ELSE ProcessBlocks(Tail(blocks),
                  process_contribution_collection(cc, st, key = CurrentKey))

\* slip: the pull-request set is not taken out of the other set
extract_repositories_data_other_keeps_pr(user_data) ==
  LET st == ProcessBlocks(user_data, EmptySets)
  IN  [repos_commit_only |-> {r \in st.repos_commit : r \notin st.repos_pr},
       repos_pr_only     |-> st.repos_pr,
       repos_other       |-> st.repos_all \ st.repos_commit]

\* slip: the pull-request set is not taken out of the commit set
extract_repositories_data_commit_keeps_pr(user_data) ==
  LET st == ProcessBlocks(user_data, EmptySets)
  IN  [repos_commit_only |-> st.repos_commit,
       repos_pr_only     |-> st.repos_pr,
       repos_other       |-> (st.repos_all \ st.repos_commit) \ st.repos_pr]

\* slip: nothing is taken out of the other set
extract_repositories_data_all_other(user_data) ==
  LET st == ProcessBlocks(user_data, EmptySets)
  IN  [repos_commit_only |-> {r \in st.repos_commit : r \notin st.repos_pr},
       repos_pr_only     |-> st.repos_pr,
       repos_other       |-> st.repos_all]

extract_repositories_data(user_data) ==
  LET st == ProcessBlocks(user_data, EmptySets)
  IN  [repos_commit_only |-> {r \in st.repos_commit : r \notin st.repos_pr},
       repos_pr_only     |-> st.repos_pr,
       repos_other       |-> (st.repos_all \ st.repos_commit) \ st.repos_pr]

\* ------------------------------------------------------------------------
\* github_api.py: the renderer
\* ------------------------------------------------------------------------
\* translator.get_text(key): the text of a key in the current language (the
\* texts stand for those of the translation file of the language)
get_text(key) ==
  CASE key = "categories.profile_git"         -> "GitHub profile"
    [] key = "categories.commit_only"         -> "Commits only"
    [] key = "categories.pull_requests"       -> "Pull requests"
    [] key = "categories.other_contributions" -> "Other contributions"

\* sorted(repos_set): ascending by (name, url)
\* slip: descending order
RECURSIVE sorted_descending(_)
sorted_descending(S) ==
  IF S = {} THEN <<>>
  ELSE LET m == CHOOSE x \in S : \A y \in S \ {x} : TupleLess(y, x)
       IN  <<m>> \o sorted_descending(S \ {m})

RECURSIVE sorted(_)
sorted(S) ==
  IF S = {} THEN <<>>
  ELSE LET m == CHOOSE x \in S : \A y \in S \ {x} : TupleLess(x, y)
       IN  <<m>> \o sorted(S \ {m})

\* the separator f" \u2014 " (space, em dash, space) put before a comment
CommentSep == " -- "

\* slip: the link text and the link target are exchanged
BulletLine_swapped(name, url, user_comments) ==
  <<"- [", url, "](", name, ")">>
    \o (IF name \in DOMAIN user_comments THEN <<CommentSep, user_comments[name]>> ELSE <<>>)

\* one bullet line; user_comments maps repository names to comments
BulletLine(name, url, user_comments) ==
  <<"- [", name, "](", url, ")">>
    \o (IF name \in DOMAIN user_comments THEN <<CommentSep, user_comments[name]>> ELSE <<>>)

\* slip: the heading of an empty set is emitted
build_readme_section_always(section_key, repos_set, user_comments) ==
  LET rs == sorted(repos_set)
  IN  <<  <<"## ", get_text(section_key), "\n">>  >>
        \o [i \in 1..Len(rs) |-> BulletLine(rs[i][1], rs[i][2], user_comments)]

\* a section is a list of lines, a line the sequence of its pieces
build_readme_section(section_key, repos_set, user_comments) ==
  IF repos_set = {} THEN <<>>
  ELSE LET rs == sorted(repos_set)
       IN  <<  <<"## ", get_text(section_key), "\n">>  >>
             \o [i \in 1..Len(rs) |-> BulletLine(rs[i][1], rs[i][2], user_comments)]

\* "\n".join(lines)
RECURSIVE join(_)
join(lines) ==
  IF lines = <<>> THEN <<>>
  ELSE IF Len(lines) = 1 THEN lines[1]
  ELSE lines[1] \o <<"\n">> \o join(Tail(lines))

\* slip: the other-contributions section comes before the pull-request one
readme_lines_other_first(username, repos_data, user_comments) ==
  LET title        == << <<"# ", get_text("categories.profile_git"), " : ", username, "\n">> >>
      commit_lines == build_readme_section("categories.commit_only",
                        repos_data.repos_commit_only, user_comments)
      pr_lines     == build_readme_section("categories.pull_requests",
                        repos_data.repos_pr_only, user_comments)
      other_lines  == build_readme_section("categories.other_contributions",
                        repos_data.repos_other, user_comments)
  IN  title \o commit_lines
        \o (IF other_lines # <<>> THEN << <<>> >> \o other_lines ELSE <<>>)
        \o (IF pr_lines # <<>> THEN << <<>> >> \o pr_lines ELSE <<>>)

readme_lines(username, repos_data, user_comments) ==
  LET title        == << <<"# ", get_text("categories.profile_git"), " : ", username, "\n">> >>
      commit_lines == build_readme_section("categories.commit_only",
                        repos_data.repos_commit_only, user_comments)
      pr_lines     == build_readme_section("categories.pull_requests",
                        repos_data.repos_pr_only, user_comments)
      other_lines  == build_readme_section("categories.other_contributions",
                        repos_data.repos_other, user_comments)
  IN  title \o commit_lines
        \o (IF pr_lines # <<>> THEN << <<>> >> \o pr_lines ELSE <<>>)
        \o (IF other_lines # <<>> THEN << <<>> >> \o other_lines ELSE <<>>)

build_readme_content(username, repos_data, user_comments) ==
  join(readme_lines(username, repos_data, user_comments))

\* ------------------------------------------------------------------------
\* github_api.py: the query builder and the API client
\* ------------------------------------------------------------------------
\* datetime.now().year
CurrentYear == 2024

\* a block of the query: the key its answer comes under, whether that key
\* is an alias, the fields it asks for and, for an aliased block, the
\* from: and to: arguments
\* _build_current_year_query: no alias, no arguments, five fields
build_current_year_query ==
  [alias |-> CurrentKey, aliased |-> FALSE, fields |-> CurrentYearFields]

\* _build_year_query: the year is written into the alias, from: and to:
build_year_query(year) ==
  [alias |-> YearKey(year), aliased |-> TRUE,
   from |-> <<ToString(year), "-01-01T00:00:00Z">>,
   to   |-> <<ToString(year), "-12-31T23:59:59Z">>,
   fields |-> YearFields]

\* slip: the range of the years includes current_year
build_contributions_query_inclusive(created_year, current_year) ==
  <<build_current_year_query>> \o
    [i \in 1..(IF current_year + 1 > created_year THEN current_year + 1 - created_year ELSE 0)
       |-> build_year_query(created_year + i - 1)]

\* _build_contributions_query: the blocks in the order of the query, the
\* current-year block, then one block per year of
\* range(created_year, current_year)
build_contributions_query(created_year, current_year) ==
  <<build_current_year_query>> \o
    [i \in 1..(IF current_year > created_year THEN current_year - created_year ELSE 0)
       |-> build_year_query(created_year + i - 1)]

\* slip: an errors key next to a data key is not taken as a failure
get_user_creation_year_partial(response) ==
  IF response.shape = "not_json" THEN [outcome |-> "raise"]
  ELSE IF response.errors /\ ~response.data THEN [outcome |-> "None"]
  ELSE IF ~response.data THEN [outcome |-> "raise"]
  ELSE IF response.shape # "ok" THEN [outcome |-> "raise"]
  ELSE [outcome |-> "value", year |-> response.created_year]

fetch_contributions_data_partial(response) ==
  IF response.shape = "not_json" THEN [outcome |-> "raise"]
  ELSE IF response.errors /\ ~response.data THEN [outcome |-> "None"]
  ELSE IF ~response.data THEN [outcome |-> "raise"]
  ELSE IF response.shape \in {"data_null", "field_absent"} THEN [outcome |-> "raise"]
  ELSE IF response.shape = "user_null" THEN [outcome |-> "None"]
  ELSE [outcome |-> "value", user_data |-> response.user]

\* a response is the body of the answer.  shape "not_json" is a body that
\* response.json() cannot parse; otherwise the body is a JSON object, errors
\* and data tell which of the two top-level keys it has, and shape tells
\* what is under data: "ok" (data.user with its fields), "data_null"
\* (data is null), "user_null" (data.user is null) or "field_absent"
\* (createdAt, respectively user, is not there)
\* _get_user_creation_year: None on an errors key, else the year of
\* createdAt; the subscripts raise on anything that is not there
get_user_creation_year(response) ==
  IF response.shape = "not_json" THEN [outcome |-> "raise"]
  ELSE IF response.errors THEN [outcome |-> "None"]
  ELSE IF ~response.data THEN [outcome |-> "raise"]
  ELSE IF response.shape # "ok" THEN [outcome |-> "raise"]
  ELSE [outcome |-> "value", year |-> response.created_year]

\* _fetch_contributions_data: None on an errors key, else data.user (None
\* when data.user is null); the subscripts raise on a missing data or user
fetch_contributions_data(response) ==
  IF response.shape = "not_json" THEN [outcome |-> "raise"]
  ELSE IF response.errors THEN [outcome |-> "None"]
  ELSE IF ~response.data THEN [outcome |-> "raise"]
  ELSE IF response.shape \in {"data_null", "field_absent"} THEN [outcome |-> "raise"]
  ELSE IF response.shape = "user_null" THEN [outcome |-> "None"]
  ELSE [outcome |-> "value", user_data |-> response.user]

EmptyDict == [k \in {} |-> {}]
EmptyString == <<>>

YearRequest(username) == [query |-> "createdAt", login |-> username]
ContributionsRequest(username, query) ==
  [query |-> "contributions", login |-> username, blocks |-> query]

\* slip: the contributions request is posted again after a failed fetch
generate_readme_content_retry(username, user_comments, year_response, contrib_response) ==
  LET created == get_user_creation_year(year_response)
      query   == build_contributions_query(created.year, CurrentYear)
      fetched == fetch_contributions_data(contrib_response)
      repos_data == extract_repositories_data(fetched.user_data)
  IN  IF created.outcome = "raise"
        THEN [raised |-> TRUE, requests |-> <<YearRequest(username)>>]
      ELSE IF created.outcome = "None"
        THEN [raised |-> FALSE, readme_content |-> EmptyString, repos_data |-> EmptyDict,
              requests |-> <<YearRequest(username)>>]
      ELSE IF fetched.outcome = "raise"
        THEN [raised |-> TRUE,
              requests |-> <<YearRequest(username), ContributionsRequest(username, query)>>]
      ELSE IF fetched.outcome = "None"
        THEN [raised |-> FALSE, readme_content |-> EmptyString, repos_data |-> EmptyDict,
              requests |-> <<YearRequest(username), ContributionsRequest(username, query),
                             ContributionsRequest(username, query)>>]
      ELSE [raised |-> FALSE,
            readme_content |-> build_readme_content(username, repos_data, user_comments),
            repos_data |-> repos_data,
            requests |-> <<YearRequest(username), ContributionsRequest(username, query)>>]

\* generate_readme_content: what it returns and the requests it posts, for
\* the answers the endpoint gives to its two requests
generate_readme_content(username, user_comments, year_response, contrib_response) ==
  LET created == get_user_creation_year(year_response)
      query   == build_contributions_query(created.year, CurrentYear)
      fetched == fetch_contributions_data(contrib_response)
      repos_data == extract_repositories_data(fetched.user_data)
  IN  IF created.outcome = "raise"
        THEN [raised |-> TRUE, requests |-> <<YearRequest(username)>>]
      ELSE IF created.outcome = "None"
        THEN [raised |-> FALSE, readme_content |-> EmptyString, repos_data |-> EmptyDict,
              requests |-> <<YearRequest(username)>>]
      ELSE IF fetched.outcome = "raise"
        THEN [raised |-> TRUE,
              requests |-> <<YearRequest(username), ContributionsRequest(username, query)>>]
      ELSE IF fetched.outcome = "None"
        THEN [raised |-> FALSE, readme_content |-> EmptyString, repos_data |-> EmptyDict,
              requests |-> <<YearRequest(username), ContributionsRequest(username, query)>>]
      ELSE [raised |-> FALSE,
            readme_content |-> build_readme_content(username, repos_data, user_comments),
            repos_data |-> repos_data,
            requests |-> <<YearRequest(username), ContributionsRequest(username, query)>>]

\* ------------------------------------------------------------------------
\* The account on the remote side
\* ------------------------------------------------------------------------
SeqsUpTo(S, n) == UNION {[1..m -> S] : m \in 0..n}

CreationYears == {CurrentYear - 1, CurrentYear}

\* a contribution entry: a repository in a field of a block
EntriesOf(created_year) ==
  LET query == build_contributions_query(created_year, CurrentYear)
  IN  UNION {[key : {query[i].alias}, field : query[i].fields, repo : Repositories] :
               i \in 1..Len(query)}

\* the user object the endpoint answers with: every block of the query,
\* every field of the block, the entries in their order
PayloadOf(created_year, entries) ==
  LET query == build_contributions_query(created_year, CurrentYear)
      Items(k, f) ==
        LET In(e) == e.key = k /\ e.field = f
            es    == SelectSeq(entries, In)
        IN  [i \in 1..Len(es) |-> es[i].repo]
  IN  [i \in 1..Len(query) |->
         [key |-> query[i].alias,
          val |-> Object([f \in query[i].fields |-> Items(query[i].alias, f)])]]

\* what else the user object may hold in front of the blocks of the query: a
\* key without the prefix, a prefixed key whose value is null or empty, a
\* historical block with a field the query asks of the current year only
ExtraBlocks ==
  { <<>>,
    << [key |-> <<"login">>, val |-> Object([f \in {CommitField} |-> <<RepoA>>])] >>,
    << [key |-> YearKey(CurrentYear - 2), val |-> Null] >>,
    << [key |-> YearKey(CurrentYear - 2), val |-> Object(EmptyDict)] >>,
    << [key |-> YearKey(CurrentYear - 2), val |-> Object([f \in {IssueField} |-> <<RepoB>>])] >> }

Usernames == {"octocat", "hubot"}
CommentTexts == {"lib", "tool"}

\* the comment maps handed to the renderer
CommentMaps ==
  {EmptyDict,
   [n \in {"b/r"} |-> "lib"],
   [n \in {"b/r", "b/rr"} |-> IF n = "b/r" THEN "tool" ELSE "lib"]}

\* ------------------------------------------------------------------------
\* config_manager.py
\* ------------------------------------------------------------------------
\* username_history[:10]
HistoryLimit == 10

\* dict.get(key, default) and d[key] = value
DictGet(d, key, default) == IF key \in DOMAIN d THEN d[key] ELSE default
DictSet(d, key, value) ==
  [k \in DOMAIN d \cup {key} |-> IF k = key THEN value ELSE d[k]]

\* an optional argument: None or a value
NoneValue   == [is_none |-> TRUE]
Some(value) == [is_none |-> FALSE, value |-> value]

\* base64.b64encode(token.encode()).decode() on the tokens of the model
Tokens == {"", "ghp_1"}
b64encode(token) == IF token = "" THEN "" ELSE "Z2hwXzE="
b64decode(enc)   == CHOOSE t \in Tokens : b64encode(t) = enc

\* config.json: absent, or the JSON object written by save_config
NoFile == [exists |-> FALSE]
FileOf(data) == [exists |-> TRUE, data |-> data]

\* list.remove(x): the first occurrence goes
remove(list, x) ==
  LET i == CHOOSE j \in 1..Len(list) : list[j] = x /\ \A k \in 1..(j - 1) : list[k] # x
  IN  SubSeq(list, 1, i - 1) \o SubSeq(list, i + 1, Len(list))

\* slip: the username is not removed before it is inserted
save_config_no_remove(config_file, username, token, theme, user_comments, language) ==
  LET existing_data == IF config_file.exists THEN config_file.data ELSE EmptyDict
      inserted == <<username>> \o DictGet(existing_data, "username_history", <<>>)
      username_history ==
        SubSeq(inserted, 1, IF Len(inserted) < HistoryLimit THEN Len(inserted) ELSE HistoryLimit)
      stored == DictGet(existing_data, "user_configs", EmptyDict)
      user_configs ==
        IF ~user_comments.is_none
        THEN DictSet(stored, username,
               DictSet(DictGet(stored, username, EmptyDict), "comments", user_comments.value))
        ELSE stored
  IN  FileOf([username         |-> username,
              username_history |-> username_history,
              token            |-> b64encode(token),
              theme            |-> theme,
              language         |-> IF ~language.is_none THEN language.value
                                   ELSE DictGet(existing_data, "language", "en"),
              user_configs     |-> user_configs])

\* slip: the history is not cut to its first ten entries
save_config_no_limit(config_file, username, token, theme, user_comments, language) ==
  LET existing_data == IF config_file.exists THEN config_file.data ELSE EmptyDict
      read     == DictGet(existing_data, "username_history", <<>>)
      removed  == IF \E i \in 1..Len(read) : read[i] = username
                  THEN remove(read, username) ELSE read
      stored == DictGet(existing_data, "user_configs", EmptyDict)
      user_configs ==
        IF ~user_comments.is_none
        THEN DictSet(stored, username,
               DictSet(DictGet(stored, username, EmptyDict), "comments", user_comments.value))
        ELSE stored
  IN  FileOf([username         |-> username,
              username_history |-> <<username>> \o removed,
              token            |-> b64encode(token),
              theme            |-> theme,
              language         |-> IF ~language.is_none THEN language.value
                                   ELSE DictGet(existing_data, "language", "en"),
              user_configs     |-> user_configs])

\* slip: the comments are stored under every username of user_configs
save_config_all_users(config_file, username, token, theme, user_comments, language) ==
  LET existing_data == IF config_file.exists THEN config_file.data ELSE EmptyDict
      read     == DictGet(existing_data, "username_history", <<>>)
      removed  == IF \E i \in 1..Len(read) : read[i] = username
                  THEN remove(read, username) ELSE read
      inserted == <<username>> \o removed
      username_history ==
        SubSeq(inserted, 1, IF Len(inserted) < HistoryLimit THEN Len(inserted) ELSE HistoryLimit)
      stored == DictGet(existing_data, "user_configs", EmptyDict)
      user_configs ==
        IF ~user_comments.is_none
        THEN [k \in DOMAIN stored \cup {username} |->
                DictSet(DictGet(stored, k, EmptyDict), "comments", user_comments.value)]
        ELSE stored
  IN  FileOf([username         |-> username,
              username_history |-> username_history,
              token            |-> b64encode(token),
              theme            |-> theme,
              language         |-> IF ~language.is_none THEN language.value
                                   ELSE DictGet(existing_data, "language", "en"),
              user_configs     |-> user_configs])

\* slip: the comments of the other usernames are not written back
save_config_drops_others(config_file, username, token, theme, user_comments, language) ==
  LET existing_data == IF config_file.exists THEN config_file.data ELSE EmptyDict
      read     == DictGet(existing_data, "username_history", <<>>)
      removed  == IF \E i \in 1..Len(read) : read[i] = username
                  THEN remove(read, username) ELSE read
      inserted == <<username>> \o removed
      username_history ==
        SubSeq(inserted, 1, IF Len(inserted) < HistoryLimit THEN Len(inserted) ELSE HistoryLimit)
      stored == DictGet(existing_data, "user_configs", EmptyDict)
      user_configs ==
        IF ~user_comments.is_none
        THEN DictSet(EmptyDict, username,
               DictSet(DictGet(stored, username, EmptyDict), "comments", user_comments.value))
        ELSE stored
  IN  FileOf([username         |-> username,
              username_history |-> username_history,
              token            |-> b64encode(token),
              theme            |-> theme,
              language         |-> IF ~language.is_none THEN language.value
                                   ELSE DictGet(existing_data, "language", "en"),
              user_configs     |-> user_configs])

\* save_config: the file it writes, given the file it reads
save_config(config_file, username, token, theme, user_comments, language) ==
  LET existing_data == IF config_file.exists THEN config_file.data ELSE EmptyDict
      read     == DictGet(existing_data, "username_history", <<>>)
      removed  == IF \E i \in 1..Len(read) : read[i] = username
                  THEN remove(read, username) ELSE read
      inserted == <<username>> \o removed
      username_history ==
        SubSeq(inserted, 1, IF Len(inserted) < HistoryLimit THEN Len(inserted) ELSE HistoryLimit)
      stored == DictGet(existing_data, "user_configs", EmptyDict)
      user_configs ==
        IF ~user_comments.is_none
        THEN DictSet(stored, username,
               DictSet(DictGet(stored, username, EmptyDict), "comments", user_comments.value))
        ELSE stored
  IN  FileOf([username         |-> username,
              username_history |-> username_history,
              token            |-> b64encode(token),
              theme            |-> theme,
              language         |-> IF ~language.is_none THEN language.value
                                   ELSE DictGet(existing_data, "language", "en"),
              user_configs     |-> user_configs])

\* load_config: (username, username_history, token, theme, language, user_configs)
load_config(config_file) ==
  IF config_file.exists
  THEN LET data == config_file.data
           token_enc == DictGet(data, "token", "")
       IN  [username         |-> DictGet(data, "username", ""),
            username_history |-> DictGet(data, "username_history", <<>>),
            token            |-> IF token_enc # "" THEN b64decode(token_enc) ELSE "",
            theme            |-> DictGet(data, "theme", "light"),
            language         |-> DictGet(data, "language", "en"),
            user_configs     |-> DictGet(data, "user_configs", EmptyDict)]
  ELSE [username |-> "", username_history |-> <<>>, token |-> "", theme |-> "light",
        language |-> "en", user_configs |-> EmptyDict]

\* slip: the comments stored under the username are not found
get_user_comments_none(username, user_configs) == EmptyDict

get_user_comments(username, user_configs) ==
  DictGet(DictGet(user_configs, username, EmptyDict), "comments", EmptyDict)

\* ------------------------------------------------------------------------
\* github_api.py: test_github_auth
\* ------------------------------------------------------------------------
\* JSON values besides objects and null
String(s) == [kind |-> "string", value |-> s]
ErrorList == [kind |-> "array"]

\* what requests.post comes back with: no response at all, a body that is
\* not JSON, or a body that is a JSON value
NoResponse   == [transport |-> "failed"]
NotJson      == [transport |-> "ok", is_json |-> FALSE]
Json(body)   == [transport |-> "ok", is_json |-> TRUE, body |-> body]

\* test_github_auth: the boolean it returns, or the exception that leaves it
test_github_auth(username, token, response) ==
  IF response.transport # "ok" THEN [raised |-> TRUE]
  ELSE IF ~response.is_json THEN [raised |-> TRUE]
  ELSE LET data   == response.body
           d      == DictGet(data.fields, "data", Object(EmptyDict))
           viewer == DictGet(d.fields, "viewer", Object(EmptyDict))
           login  == DictGet(viewer.fields, "login", Null)
       IN  IF data.kind # "object" THEN [raised |-> TRUE]
           ELSE IF "errors" \in DOMAIN data.fields THEN [raised |-> FALSE, value |-> FALSE]
           ELSE IF d.kind # "object" THEN [raised |-> TRUE]
           ELSE IF viewer.kind # "object" THEN [raised |-> TRUE]
           ELSE [raised |-> FALSE, value |-> login # Null]

\* ------------------------------------------------------------------------
\* main_window.py
\* ------------------------------------------------------------------------
\* str.strip() on the texts of the model
strip(text) ==
  CASE text = "  "    -> ""
    [] text = " lib " -> "lib"
    [] OTHER          -> text

\* the attributes set by __init__ before the widgets are built
NewWindow ==
  [started              |-> FALSE,
   username_input       |-> "",
   token_input          |-> "",
   current_theme        |-> "auto",
   current_language     |-> "en",
   user_configs         |-> EmptyDict,
   last_repos_data      |-> EmptyDict,
   copy_btn_enabled     |-> FALSE,
   comments_btn_enabled |-> FALSE,
   raw_text             |-> EmptyString]

NoDialog == [open |-> FALSE]

\* load_saved_config
load_saved_config(w, config_file) ==
  LET cfg == load_config(config_file)
  IN  [w EXCEPT !.current_language = cfg.language,
                !.username_input   = IF cfg.username # "" THEN cfg.username
                                     ELSE IF cfg.username_history # <<>>
                                          THEN cfg.username_history[1] ELSE "",
                !.token_input      = cfg.token,
                !.current_theme    = cfg.theme,
                !.user_configs     = cfg.user_configs]

\* refresh_username_combobox: the text typed is kept, the comments are read
\* again from the file
refresh_username_combobox(w, config_file) ==
  LET cfg == load_config(config_file)
      current_text == w.username_input
  IN  [w EXCEPT !.user_configs   = cfg.user_configs,
                !.username_input = IF current_text # "" THEN current_text
                                   ELSE IF cfg.username # "" THEN cfg.username
                                   ELSE IF cfg.username_history # <<>>
                                        THEN cfg.username_history[1] ELSE ""]

\* the end of apply_theme, after save_config wrote the file
apply_theme_saved(w, written) ==
  [win |-> refresh_username_combobox(w, written), file |-> written]

\* apply_theme: the window and the file after it
apply_theme(w, config_file) ==
  apply_theme_saved(w, save_config(config_file, w.username_input, w.token_input,
                                   w.current_theme, NoneValue, Some(w.current_language)))

\* generate_readme
generate_readme(w, username, year_response, contrib_response) ==
  generate_readme_content(username, get_user_comments(username, w.user_configs),
                          year_response, contrib_response)

\* on_validate returning before generate_readme: nothing generated, nothing
\* requested
NoResult ==
  [raised |-> FALSE, readme_content |-> EmptyString, repos_data |-> EmptyDict,
   requests |-> <<>>]

\* slip: the record of the generation is not kept
on_validate_generated_keeps_record(w1, written, r) ==
  IF r.raised
    THEN [win |-> w1, file |-> written, ended |-> "raised", result |-> r]
  ELSE IF r.readme_content # EmptyString
    THEN [win |-> [w1 EXCEPT !.raw_text = r.readme_content,
                             !.copy_btn_enabled = TRUE,
                             !.comments_btn_enabled = TRUE],
          file |-> written, ended |-> "rendered", result |-> r]
  ELSE [win |-> w1, file |-> written, ended |-> "github_data_error", result |-> r]

\* on_validate after generate_readme returned r: the raw text, the record
\* and the buttons change only for a non-empty document
on_validate_generated(w1, written, r) ==
  IF r.raised
    THEN [win |-> w1, file |-> written, ended |-> "raised", result |-> r]
  ELSE IF r.readme_content # EmptyString
    THEN [win |-> [w1 EXCEPT !.last_repos_data = r.repos_data,
                             !.raw_text = r.readme_content,
                             !.copy_btn_enabled = TRUE,
                             !.comments_btn_enabled = TRUE],
          file |-> written, ended |-> "rendered", result |-> r]
  ELSE [win |-> w1, file |-> written, ended |-> "github_data_error", result |-> r]

\* on_validate after refresh_username_combobox
on_validate_refreshed(w1, written, username, year_response, contrib_response) ==
  on_validate_generated(w1, written,
                        generate_readme(w1, username, year_response, contrib_response))

\* on_validate after save_config wrote the file
on_validate_saved(w, written, username, year_response, contrib_response) ==
  on_validate_refreshed(refresh_username_combobox(w, written), written, username,
                        year_response, contrib_response)

\* slip: the configuration is saved before test_github_auth is asked
on_validate_saves_first(w, config_file, auth, year_response, contrib_response) ==
  LET username == strip(w.username_input)
      token    == strip(w.token_input)
      written  == save_config(config_file, username, token, w.current_theme,
                              NoneValue, Some(w.current_language))
  IN  IF username = "" \/ token = ""
        THEN [win |-> w, file |-> config_file, ended |-> "fill_both_fields",
              result |-> NoResult]
      ELSE IF ~auth
        THEN [win |-> [w EXCEPT !.raw_text = EmptyString,
                                !.copy_btn_enabled = FALSE,
                                !.comments_btn_enabled = FALSE],
              file |-> written, ended |-> "invalid_credentials",
              result |-> NoResult]
      ELSE on_validate_saved(w, written, username, year_response, contrib_response)

\* on_validate: the window and the file after it, and the way it ended, for
\* the answer of test_github_auth and of the two requests
on_validate(w, config_file, auth, year_response, contrib_response) ==
  LET username == strip(w.username_input)
      token    == strip(w.token_input)
  IN  IF username = "" \/ token = ""
        THEN [win |-> w, file |-> config_file, ended |-> "fill_both_fields",
              result |-> NoResult]
      ELSE IF ~auth
        THEN [win |-> [w EXCEPT !.raw_text = EmptyString,
                                !.copy_btn_enabled = FALSE,
                                !.comments_btn_enabled = FALSE],
              file |-> config_file, ended |-> "invalid_credentials",
              result |-> NoResult]
      ELSE on_validate_saved(w,
             save_config(config_file, username, token, w.current_theme,
                         NoneValue, Some(w.current_language)),
             username, year_response, contrib_response)

\* open_comments_dialog: the dialog it opens, if any
open_comments_dialog(w) ==
  LET current_username == strip(w.username_input)
  IN  IF ~w.comments_btn_enabled \/ current_username = "" \/ w.last_repos_data = EmptyDict
      THEN NoDialog
      ELSE [open |-> TRUE, username |-> current_username,
            user_comments |-> get_user_comments(current_username, w.user_configs)]

\* the repositories the dialog lists
ListedNames(w) ==
  {r[1] : r \in DictGet(w.last_repos_data, "repos_commit_only", {})
                  \cup DictGet(w.last_repos_data, "repos_pr_only", {})
                  \cup DictGet(w.last_repos_data, "repos_other", {})}

\* the end of add_comment, edit_comment and delete_comment: the comments are
\* saved under the username of the dialog, read again, and the dialog is
\* opened again
save_comments_refreshed(w1, written) ==
  [win |-> w1, file |-> written, dialog |-> open_comments_dialog(w1)]

save_comments_saved(w, written) ==
  save_comments_refreshed(refresh_username_combobox(w, written), written)

save_comments(w, d, config_file, user_comments) ==
  save_comments_saved(w, save_config(config_file, d.username, w.token_input,
                                     w.current_theme, Some(user_comments),
                                     Some(w.current_language)))

\* del user_comments[repo_name]
DictDel(d, key) == [k \in DOMAIN d \ {key} |-> d[k]]

\* ------------------------------------------------------------------------
\* State
\* ------------------------------------------------------------------------
VARIABLES
  remote,   \* the account on the remote side: creation year and contributions
  call,     \* the arguments of an invocation of generate_readme_content
  ret,      \* the outcome of the invocation: answers seen, result, requests
  file,     \* config.json
  saved,    \* the last call of save_config: its arguments, the history it read
  env,      \* the callers of save_config: usernames used, repeated saves, calls made
  win,      \* the attributes and widgets of GitHubReadMeApp
  dialog,   \* the comments dialog
  annot,    \* per username and repository, the last thing the user did to its comment
  event,    \* what the window did last
  hist      \* what the window did so far: usernames accepted, document generated

genVars == <<remote, call, ret>>
cfgVars == <<file, saved, env>>
winVars == <<win, dialog, annot, event, hist>>
vars == <<remote, call, ret, file, saved, env, win, dialog, annot, event, hist>>

NotSaved == [called |-> FALSE]
EnvIdle  == [introduced |-> 0, resaves |-> 0, calls |-> <<>>]

\* the parts of the state a specification does not use stay as they are
GenIdle == remote = [created_year |-> CurrentYear, user_data |-> <<>>]
             /\ call = [username |-> "", user_comments |-> EmptyDict]
             /\ ret = [state |-> "idle"]
CfgIdle == file = NoFile /\ saved = NotSaved /\ env = EnvIdle

\* the repositories whose comment the model follows
AnnotNames == {"b/r", "b/rr"}
NoAnnot  == [u \in Usernames |-> [n \in AnnotNames |-> [op |-> "none", shown |-> FALSE]]]
NoEvent  == [kind |-> "none"]
\* any step of the window but on_validate
OtherEvent == [kind |-> "other"]
\* no document generated in this window yet, no username accepted yet
NoGeneration == [ok |-> FALSE]
NoHist   == [passed |-> {}, generation |-> NoGeneration]
WinIdle  == win = NewWindow /\ dialog = NoDialog /\ annot = NoAnnot /\ event = NoEvent
              /\ hist = NoHist

Pending == [state |-> "pending"]

InitGen ==
  /\ \E y \in CreationYears, extra \in ExtraBlocks :
       \E es \in SeqsUpTo(EntriesOf(y), MaxEntries) :
         remote = [created_year |-> y, user_data |-> extra \o PayloadOf(y, es)]
  /\ \E c \in CommentMaps : call = [username |-> "octocat", user_comments |-> c]
  /\ ret = Pending
  /\ CfgIdle
  /\ WinIdle

\* the answers the endpoint can give: an errors key, a data key, or both
YearResponses ==
  {[errors |-> e, data |-> d, shape |-> "ok", created_year |-> remote.created_year] :
     e \in BOOLEAN, d \in BOOLEAN} \ {[errors |-> FALSE, data |-> FALSE, shape |-> "ok",
                                       created_year |-> remote.created_year]}
ContribResponses ==
  {[errors |-> e, data |-> d, shape |-> "ok", user |-> remote.user_data] :
     e \in BOOLEAN, d \in BOOLEAN} \ {[errors |-> FALSE, data |-> FALSE, shape |-> "ok",
                                       user |-> remote.user_data]}

\* the answers without an errors key that are not what the code expects:
\* not JSON, no data key, or something missing under data
MalformedShapes == {"not_json", "data_absent", "data_null", "user_null", "field_absent"}
Malformed(shape) ==
  [errors |-> FALSE, data |-> shape \notin {"not_json", "data_absent"},
   shape |-> IF shape = "data_absent" THEN "ok" ELSE shape]
MalformedYearResponses ==
  {[errors |-> m.errors, data |-> m.data, shape |-> m.shape,
    created_year |-> remote.created_year] : m \in {Malformed(x) : x \in MalformedShapes}}
MalformedContribResponses ==
  {[errors |-> m.errors, data |-> m.data, shape |-> m.shape,
    user |-> remote.user_data] : m \in {Malformed(x) : x \in MalformedShapes}}
GoodYearResponse ==
  [errors |-> FALSE, data |-> TRUE, shape |-> "ok", created_year |-> remote.created_year]
GoodContribResponse ==
  [errors |-> FALSE, data |-> TRUE, shape |-> "ok", user |-> remote.user_data]

\* the answers to the two requests of one invocation
AnswerPairs ==
  (YearResponses \X ContribResponses)
    \cup (MalformedYearResponses \X {GoodContribResponse})
    \cup ({GoodYearResponse} \X MalformedContribResponses)

\* one invocation of generate_readme_content
GenerateReadmeContent ==
  /\ ret.state = "pending"
  /\ \E a \in AnswerPairs :
       LET r == generate_readme_content(call.username, call.user_comments, a[1], a[2])
       IN  ret' = [state |-> IF r.raised THEN "raised" ELSE "returned",
                   year_response |-> a[1],
                   contrib_response |-> [errors |-> a[2].errors, data |-> a[2].data,
                                         shape |-> a[2].shape],
                   result |-> r]
  /\ UNCHANGED <<remote, call>>
  /\ UNCHANGED <<cfgVars, winVars>>

NextGen == GenerateReadmeContent

SpecGen == InitGen /\ [][NextGen]_vars

\* ------------------------------------------------------------------------
\* One call of _build_contributions_query
\* ------------------------------------------------------------------------
MaxSpan == 6   \* years before and after CurrentYear given as arguments

QueryYears == (CurrentYear - MaxSpan)..(CurrentYear + MaxSpan)

InitQuery ==
  /\ remote = [created_year |-> CurrentYear, user_data |-> <<>>]
  /\ \E created_year \in QueryYears, current_year \in QueryYears :
       call = [created_year |-> created_year, current_year |-> current_year]
  /\ ret = Pending
  /\ CfgIdle
  /\ WinIdle

BuildContributionsQuery ==
  /\ ret.state = "pending"
  /\ ret' = [state |-> "returned",
             query |-> build_contributions_query(call.created_year, call.current_year)]
  /\ UNCHANGED <<remote, call>>
  /\ UNCHANGED <<cfgVars, winVars>>

NextQuery == BuildContributionsQuery

SpecQuery == InitQuery /\ [][NextQuery]_vars

\* ------------------------------------------------------------------------
\* One call of test_github_auth
\* ------------------------------------------------------------------------
\* the values of the keys of the body
LoginValues  == {Null, String(""), String("octocat")}
ViewerValues == {Null, Object(EmptyDict)} \cup {Object([k \in {"login"} |-> l]) : l \in LoginValues}
DataValues   == {Null, Object(EmptyDict)} \cup {Object([k \in {"viewer"} |-> v]) : v \in ViewerValues}
\* the body: null, or an object with or without errors and with or without data
AuthBodies ==
  {Null} \cup {Object([k \in {"errors"} |-> ErrorList]), Object(EmptyDict)}
         \cup {Object([k \in {"data"} |-> d]) : d \in DataValues}
         \cup {Object([k \in {"errors", "data"} |-> IF k = "errors" THEN ErrorList ELSE d]) :
                 d \in DataValues}
AuthResponses == {NoResponse, NotJson} \cup {Json(b) : b \in AuthBodies}

InitAuth ==
  /\ \E response \in AuthResponses : remote = [response |-> response]
  /\ \E username \in Usernames, token \in Tokens :
       call = [username |-> username, token |-> token]
  /\ ret = Pending
  /\ CfgIdle
  /\ WinIdle

TestGithubAuth ==
  /\ ret.state = "pending"
  /\ LET r == test_github_auth(call.username, call.token, remote.response)
     IN  ret' = IF r.raised THEN [state |-> "raised"]
                ELSE [state |-> "returned", value |-> r.value]
  /\ UNCHANGED <<remote, call>>
  /\ UNCHANGED <<cfgVars, winVars>>

NextAuth == TestGithubAuth

SpecAuth == InitAuth /\ [][NextAuth]_vars

\* ------------------------------------------------------------------------
\* The configuration file under a sequence of save_config calls
\* ------------------------------------------------------------------------
MaxUsers == 11   \* distinct usernames given to save_config
MaxResaves == 1   \* calls with a username that was given before

CfgName(i) == "user" \o ToString(i)

InitCfg == GenIdle /\ CfgIdle /\ WinIdle

\* one call of save_config; new usernames come in the order of their numbers
SaveConfig ==
  \E i \in 1..MaxUsers :
    /\ \/ i = env.introduced + 1
            /\ env' = [env EXCEPT !.introduced = i, !.calls = Append(@, CfgName(i))]
       \/ i <= env.introduced /\ env.resaves < MaxResaves
            /\ env' = [env EXCEPT !.resaves = @ + 1, !.calls = Append(@, CfgName(i))]
    /\ \E language \in {NoneValue, Some("fr")} :
       \E user_comments \in {NoneValue} \cup
             (IF i <= 2 THEN {Some([n \in {"b/r"} |-> "lib"])} ELSE {}) :
         /\ file' = save_config(file, CfgName(i), "ghp_1", "light", user_comments, language)
         /\ saved' = [called |-> TRUE, username |-> CfgName(i),
                      user_comments |-> user_comments, language |-> language,
                      read |-> load_config(file).username_history]
    /\ UNCHANGED <<genVars, winVars>>

NextCfg == SaveConfig

SpecCfg == InitCfg /\ [][NextCfg]_vars

\* ------------------------------------------------------------------------
\* Processes that call save_config at the same time
\* ------------------------------------------------------------------------
MaxProcs == 2   \* processes calling save_config

Procs == 1..MaxProcs

\* the file between open(CONFIG_FILE, "w") and the end of json.dump, or with
\* the bytes of two records in it: json.load fails on it and save_config
\* goes on with {}
Unreadable == FileOf(EmptyDict)

\* the files the processes may find: none, or the one a run left behind
StartFiles == {NoFile, save_config(NoFile, "hubot", "ghp_1", "light", NoneValue, NoneValue)}
ConcComments == {NoneValue, Some([n \in {"b/r"} |-> "lib"])}

InitConc ==
  /\ GenIdle
  /\ WinIdle
  /\ saved = NotSaved
  /\ file \in StartFiles
  /\ \E args \in [Procs -> [username : Usernames, user_comments : ConcComments]] :
       env = [initial |-> file,
              procs   |-> [p \in Procs |-> [pc |-> "start", username |-> args[p].username,
                                            user_comments |-> args[p].user_comments]],
              steps   |-> <<>>]

Stepped(p, step) == Append(env.steps, [proc |-> p, step |-> step])

\* lines 13-44: the file is read and the record to write is built from it
ReadConfig(p) ==
  /\ env.procs[p].pc = "start"
  /\ env' = [env EXCEPT
              !.procs[p] = [@ EXCEPT !.pc = "read"] @@
                           [data |-> save_config(file, @.username, "ghp_1", "light",
                                                 @.user_comments, NoneValue)],
              !.steps = Stepped(p, "read")]
  /\ UNCHANGED <<file, saved>>
  /\ UNCHANGED <<genVars, winVars>>

\* slip: the record is built again from the file found when it is opened
OpenConfig_rereads(p) ==
  /\ env.procs[p].pc = "read"
  /\ file' = Unreadable
  /\ env' = [env EXCEPT
              !.procs[p] = [@ EXCEPT !.pc = "open",
                              !.data = save_config(file, env.procs[p].username, "ghp_1",
                                                   "light", env.procs[p].user_comments,
                                                   NoneValue)],
              !.steps = Stepped(p, "open")]
  /\ UNCHANGED saved
  /\ UNCHANGED <<genVars, winVars>>

\* line 45: open(CONFIG_FILE, "w") empties the file; the record built from
\* what was read stays as it is
OpenConfig(p) ==
  /\ env.procs[p].pc = "read"
  /\ file' = Unreadable
  /\ env' = [env EXCEPT !.procs[p] = [@ EXCEPT !.pc = "open"],
                        !.steps = Stepped(p, "open")]
  /\ UNCHANGED saved
  /\ UNCHANGED <<genVars, winVars>>

\* line 46: json.dump and the end of the with block put the record in the
\* file; when another process put its record there since this one opened
\* the file, the bytes of the two are laid over each other and the file is
\* this record or is not JSON
DumpConfig(p) ==
  /\ env.procs[p].pc = "open"
  /\ \/ file' = env.procs[p].data
     \/ file # Unreadable /\ file' = Unreadable
  /\ env' = [env EXCEPT !.procs[p] = [@ EXCEPT !.pc = "done"],
                        !.steps = Stepped(p, "dump")]
  /\ UNCHANGED saved
  /\ UNCHANGED <<genVars, winVars>>

NextConc == \E p \in Procs : ReadConfig(p) \/ OpenConfig(p) \/ DumpConfig(p)

SpecConc == InitConc /\ [][NextConc]_vars

\* ------------------------------------------------------------------------
\* The window
\* ------------------------------------------------------------------------
MaxSettings == 1   \* theme toggles and language changes in one run
MaxComments == 2   \* comments added, edited or deleted in one run
MaxSessions == 1   \* times the window is started in one run

\* the accounts of the remote side
Accounts ==
  [u \in Usernames |->
     IF u = "octocat"
     THEN [created_year |-> 2023,
           user_data |-> PayloadOf(2023,
             << [key |-> CurrentKey, field |-> PRField, repo |-> RepoA],
                [key |-> YearKey(2023), field |-> CommitField, repo |-> RepoB],
                [key |-> CurrentKey, field |-> IssueField, repo |-> RepoP] >>)]
     ELSE [created_year |-> 2024,
           user_data |-> PayloadOf(2024,
             << [key |-> CurrentKey, field |-> RepoField, repo |-> RepoA] >>)]]

\* the answers of the endpoint about a username: with or without errors
AnswersAbout(username) ==
  LET known == username \in Usernames
      year  == IF known THEN Accounts[username].created_year ELSE CurrentYear
      data  == IF known THEN Accounts[username].user_data ELSE <<>>
  IN  {[year_response    |-> [errors |-> ye \/ ~known, data |-> ~ye /\ known,
                              shape |-> "ok", created_year |-> year],
        contrib_response |-> [errors |-> ce, data |-> ~ce, shape |-> "ok", user |-> data]] :
         ye \in BOOLEAN, ce \in BOOLEAN}

Languages     == {"en", "fr"}
CommentInputs == {"", "  ", " lib ", "tool"}

Init ==
  /\ GenIdle
  /\ file = NoFile /\ saved = NotSaved
  /\ env = [settings |-> 0, comments |-> 0, sessions |-> 0]
  /\ WinIdle

Quiet == UNCHANGED <<genVars, saved>>

\* what apply_theme leaves behind
Applied(r) ==
  /\ win' = [r.win EXCEPT !.started = TRUE]
  /\ file' = r.file

\* GitHubReadMeApp.__init__: load_saved_config, then apply_theme
Startup ==
  /\ ~win.started
  /\ env.sessions < MaxSessions
  /\ Applied(apply_theme(load_saved_config(win, file), file))
  /\ env' = [env EXCEPT !.sessions = @ + 1]
  /\ event' = OtherEvent
  /\ UNCHANGED <<dialog, annot>>
  /\ UNCHANGED hist
  /\ Quiet

\* the window is closed; the next start reads the file
Quit ==
  /\ win.started /\ ~dialog.open
  /\ win' = NewWindow
  /\ event' = OtherEvent
  /\ hist' = [hist EXCEPT !.generation = NoGeneration]
  /\ UNCHANGED <<file, env, dialog, annot>>
  /\ Quiet

\* the user types in the two fields
TypeUsername ==
  /\ win.started /\ ~dialog.open
  /\ \E u \in Usernames : u # win.username_input /\ win' = [win EXCEPT !.username_input = u]
  /\ event' = OtherEvent
  /\ UNCHANGED <<file, env, dialog, annot>>
  /\ UNCHANGED hist
  /\ Quiet

TypeToken ==
  /\ win.started /\ ~dialog.open
  /\ \E t \in Tokens : t # win.token_input /\ win' = [win EXCEPT !.token_input = t]
  /\ event' = OtherEvent
  /\ UNCHANGED <<file, env, dialog, annot>>
  /\ UNCHANGED hist
  /\ Quiet

\* toggle_theme
ToggleTheme ==
  /\ win.started /\ ~dialog.open
  /\ env.settings < MaxSettings
  /\ Applied(apply_theme(
               [win EXCEPT !.current_theme = IF @ = "light" THEN "dark" ELSE "light"], file))
  /\ env' = [env EXCEPT !.settings = @ + 1]
  /\ event' = OtherEvent
  /\ UNCHANGED <<dialog, annot>>
  /\ UNCHANGED hist
  /\ Quiet

\* change_language, for the language picked in the selector
ChangeLanguage ==
  /\ win.started /\ ~dialog.open
  /\ env.settings < MaxSettings
  /\ \E selected_language \in Languages :
       /\ selected_language # win.current_language
       /\ win' = [win EXCEPT !.current_language = selected_language]
       /\ file' = save_config(file, win.username_input, win.token_input,
                              win.current_theme, NoneValue, Some(selected_language))
  /\ env' = [env EXCEPT !.settings = @ + 1]
  /\ event' = OtherEvent
  /\ UNCHANGED <<dialog, annot>>
  /\ UNCHANGED hist
  /\ Quiet

\* the ways on_validate ends after test_github_auth accepted the credentials
PassedAuth == {"raised", "rendered", "github_data_error"}

\* what on_validate leaves behind
ValidatedAs(r, username) ==
  /\ win' = r.win
  /\ file' = r.file
  /\ event' = [kind |-> r.ended, username |-> username, requests |-> r.result.requests]
  /\ hist' = [passed |-> IF r.ended \in PassedAuth THEN hist.passed \cup {username}
                         ELSE hist.passed,
              generation |->
                IF r.ended = "rendered"
                  THEN [ok |-> TRUE, username |-> username,
                        readme_content |-> r.result.readme_content,
                        repos_data |-> r.result.repos_data]
                ELSE IF r.ended = "invalid_credentials" THEN NoGeneration
                ELSE hist.generation]
  /\ annot' = IF r.ended = "rendered"
              THEN [annot EXCEPT ![username] =
                      [n \in AnnotNames |->
                         IF n \in ListedNames(r.win) /\ annot[username][n].op = "set"
                         THEN [annot[username][n] EXCEPT !.shown = TRUE]
                         ELSE annot[username][n]]]
              ELSE annot

\* on_validate, for the answer of test_github_auth and of the two requests
Validated ==
  \E auth \in BOOLEAN :
    \E answers \in AnswersAbout(strip(win.username_input)) :
      ValidatedAs(on_validate(win, file, auth, answers.year_response,
                              answers.contrib_response),
                  strip(win.username_input))

\* the Validate button
OnValidate ==
  /\ win.started /\ ~dialog.open
  /\ Validated
  /\ UNCHANGED <<env, dialog>>
  /\ Quiet

\* the Manage comments button
OpenCommentsDialog ==
  /\ win.started /\ ~dialog.open
  /\ open_comments_dialog(win).open
  /\ dialog' = open_comments_dialog(win)
  /\ event' = OtherEvent
  /\ UNCHANGED <<win, file, env, annot>>
  /\ UNCHANGED hist
  /\ Quiet

\* what the three comment handlers leave behind
CommentsSavedAs(r, repo_name, mark) ==
  /\ win' = r.win
  /\ file' = r.file
  /\ dialog' = r.dialog
  /\ annot' = [annot EXCEPT ![dialog.username][repo_name] = mark]
  /\ env' = [env EXCEPT !.comments = @ + 1]
  /\ event' = OtherEvent
  /\ UNCHANGED hist

CommentsSaved(repo_name, user_comments, mark) ==
  CommentsSavedAs(save_comments(win, dialog, file, user_comments), repo_name, mark)

\* add_comment: the Add button of a repository without comment, the text
\* typed in the input dialog, accepted
AddComment ==
  /\ dialog.open
  /\ env.comments < MaxComments
  /\ \E repo_name \in ListedNames(win), comment \in CommentInputs :
       /\ DictGet(dialog.user_comments, repo_name, "") = ""
       /\ strip(comment) # ""
       /\ CommentsSaved(repo_name,
                        DictSet(dialog.user_comments, repo_name, strip(comment)),
                        [op |-> "set", text |-> strip(comment), shown |-> FALSE])
  /\ Quiet

\* edit_comment: the Edit button of a repository with a comment
EditComment ==
  /\ dialog.open
  /\ env.comments < MaxComments
  /\ \E repo_name \in ListedNames(win), comment \in CommentInputs :
       /\ DictGet(dialog.user_comments, repo_name, "") # ""
       /\ strip(comment) # ""
       /\ CommentsSaved(repo_name,
                        DictSet(dialog.user_comments, repo_name, strip(comment)),
                        [op |-> "set", text |-> strip(comment), shown |-> FALSE])
  /\ Quiet

\* delete_comment: the Delete button of a repository with a comment, Yes
DeleteComment ==
  /\ dialog.open
  /\ env.comments < MaxComments
  /\ \E repo_name \in ListedNames(win) :
       /\ DictGet(dialog.user_comments, repo_name, "") # ""
       /\ CommentsSaved(repo_name,
                        DictDel(dialog.user_comments, repo_name),
                        [op |-> "deleted", shown |-> annot[dialog.username][repo_name].shown])
  /\ Quiet

\* the Close button, or the close box: the dialog goes, then on_validate
CloseDialog ==
  /\ dialog.open
  /\ dialog' = NoDialog
  /\ Validated
  /\ UNCHANGED env
  /\ Quiet

\* the Escape key: the dialog is rejected
DismissDialog ==
  /\ dialog.open
  /\ dialog' = NoDialog
  /\ event' = OtherEvent
  /\ UNCHANGED <<win, file, env, annot>>
  /\ UNCHANGED hist
  /\ Quiet

Next ==
  \/ Startup
  \/ Quit
  \/ TypeUsername
  \/ TypeToken
  \/ ToggleTheme
  \/ ChangeLanguage
  \/ OnValidate
  \/ OpenCommentsDialog
  \/ AddComment
  \/ EditComment
  \/ DeleteComment
  \/ CloseDialog
  \/ DismissDialog

Spec == Init /\ [][Next]_vars

\* ------------------------------------------------------------------------
\* Reading a payload and a document
\* ------------------------------------------------------------------------
Range(f) == {f[i] : i \in DOMAIN f}

\* the blocks the aggregator processes: prefixed key, non-empty value
ProcessedBlocks(user_data) ==
  {b \in Range(user_data) : startswith(b.key, CCPrefix) /\ Truthy(b.val)}

\* the repositories that occur in a field of a block
FieldsPresent(b)  == IF b.val.kind = "object" THEN DOMAIN b.val.fields ELSE {}
ReposIn(b, field) == IF field \in FieldsPresent(b) THEN Range(b.val.fields[field]) ELSE {}
ReposOfBlock(b)   == UNION {ReposIn(b, f) : f \in FieldsPresent(b)}

RepoTuple(r) == <<r.nameWithOwner, r.url>>
Public(r)    == ~r.isPrivate /\ ~r.isFork

\* the fields the aggregator reads in a block: all five in the current-year
\* block, commits, pull requests and direct contributions in the others
ReadFields(b) == IF b.key = CurrentKey THEN CurrentYearFields ELSE YearFields
ReposRead(b)  == UNION {ReposIn(b, f) : f \in ReadFields(b)}

\* the public, non-fork repositories admitted from the processed blocks
AdmittedRepos(user_data) ==
  {RepoTuple(r) : r \in {x \in UNION {ReposRead(b) : b \in ProcessedBlocks(user_data)} :
                           Public(x)}}

\* the lines of a document: its pieces split at the line feeds
RECURSIVE SplitLines(_)
SplitLines(doc) ==
  IF \A i \in 1..Len(doc) : doc[i] # "\n" THEN <<doc>>
  ELSE LET i == CHOOSE j \in 1..Len(doc) :
                  doc[j] = "\n" /\ \A k \in 1..(j - 1) : doc[k] # "\n"
       IN  <<SubSeq(doc, 1, i - 1)>> \o SplitLines(SubSeq(doc, i + 1, Len(doc)))

IsBullet(line)  == Len(line) >= 5 /\ line[1] = "- ["
IsHeading(line) == Len(line) >= 2 /\ line[1] = "## "
BulletName(line) == line[2]

\* the invocation returned a document built from the payload
Rendered ==
  /\ ret.state = "returned"
  /\ ~ret.year_response.errors
  /\ ~ret.contrib_response.errors
  /\ ret.contrib_response.shape = "ok"

OutputSets == ret.result.repos_data
OutputLines == SplitLines(ret.result.readme_content)

\* ------------------------------------------------------------------------
\* C1: the three sets returned by the aggregator are pairwise disjoint and
\* their union is the set of the public, non-fork repositories admitted
\* from the processed blocks of the payload.
\* ------------------------------------------------------------------------
C1_Partition ==
  Rendered =>
    /\ OutputSets.repos_commit_only \cap OutputSets.repos_pr_only = {}
    /\ OutputSets.repos_commit_only \cap OutputSets.repos_other = {}
    /\ OutputSets.repos_pr_only \cap OutputSets.repos_other = {}
    /\ OutputSets.repos_commit_only \cup OutputSets.repos_pr_only \cup OutputSets.repos_other
         = AdmittedRepos(remote.user_data)

\* a payload that fills two of the three sets and has a key that is not
\* processed
C1_Witness ==
  /\ Rendered
  /\ OutputSets.repos_pr_only # {}
  /\ OutputSets.repos_other # {}
  /\ ProcessedBlocks(remote.user_data) # Range(remote.user_data)

\* ------------------------------------------------------------------------
\* C2: a repository whose isPrivate or isFork flag is true in the payload is
\* in none of the three output sets and has no bullet in the document,
\* whatever field or block it occurs in.
\* ------------------------------------------------------------------------
PayloadRepos == UNION {ReposOfBlock(b) : b \in Range(remote.user_data)}

C2_PrivateForkInvisible ==
  Rendered =>
    \A r \in PayloadRepos :
      (r.isPrivate \/ r.isFork) =>
        /\ RepoTuple(r) \notin OutputSets.repos_commit_only
        /\ RepoTuple(r) \notin OutputSets.repos_pr_only
        /\ RepoTuple(r) \notin OutputSets.repos_other
        /\ \A i \in 1..Len(OutputLines) :
             IsBullet(OutputLines[i]) => BulletName(OutputLines[i]) # r.nameWithOwner

\* a fork among the commits of a historical block, a private repository
\* among the pull requests of the current block
C2_Witness ==
  /\ Rendered
  /\ \E b \in Range(remote.user_data) :
       b.key # CurrentKey /\ RepoF \in ReposIn(b, CommitField)
  /\ \E b \in Range(remote.user_data) :
       b.key = CurrentKey /\ RepoP \in ReposIn(b, PRField)

\* ------------------------------------------------------------------------
\* C3: a public, non-fork repository that occurs in a commit contribution
\* and in a pull-request contribution, of the same block or of two blocks,
\* is in repos_pr_only and in neither repos_commit_only nor repos_other.
\* ------------------------------------------------------------------------
C3_PullRequestWins ==
  Rendered =>
    \A r \in PayloadRepos :
      ( /\ Public(r)
        /\ \E b \in ProcessedBlocks(remote.user_data) : r \in ReposIn(b, CommitField)
        /\ \E b \in ProcessedBlocks(remote.user_data) : r \in ReposIn(b, PRField) )
      => /\ RepoTuple(r) \in OutputSets.repos_pr_only
         /\ RepoTuple(r) \notin OutputSets.repos_commit_only
         /\ RepoTuple(r) \notin OutputSets.repos_other

\* the commit in the current block, the pull request in a historical one
C3_Witness ==
  /\ Rendered
  /\ \E b1, b2 \in ProcessedBlocks(remote.user_data) :
       /\ b1.key = CurrentKey /\ b2.key # CurrentKey
       /\ RepoA \in ReposIn(b1, CommitField)
       /\ RepoA \in ReposIn(b2, PRField)

\* ------------------------------------------------------------------------
\* C4: in every section of the document the bullets are in strictly
\* ascending order of the repository name, whatever the order of the
\* repositories in the payload.
\* ------------------------------------------------------------------------
C4_BulletsAscending ==
  Rendered =>
    \A i \in 1..(Len(OutputLines) - 1) :
      (IsBullet(OutputLines[i]) /\ IsBullet(OutputLines[i + 1]))
        => StrLess(BulletName(OutputLines[i]), BulletName(OutputLines[i + 1]))

\* a section of two bullets whose repositories come in descending order in
\* the payload
C4_Witness ==
  /\ Rendered
  /\ \E b \in ProcessedBlocks(remote.user_data) :
       Get(b.val, CommitField) = <<RepoB, RepoA>>
  /\ \E i \in 1..(Len(OutputLines) - 1) :
       IsBullet(OutputLines[i]) /\ IsBullet(OutputLines[i + 1])

\* ------------------------------------------------------------------------
\* C5: when the creation-year response has a top-level errors key,
\* generate_readme_content returns the empty string and an empty record,
\* whatever the contributions endpoint holds.
\* ------------------------------------------------------------------------
C5_LookupFailure ==
  (ret.state # "pending" /\ ret.year_response.errors) =>
    /\ ret.state = "returned"
    /\ ret.result.readme_content = EmptyString
    /\ ret.result.repos_data = EmptyDict

\* the failed lookup of an account that has public contributions
C5_Witness ==
  /\ ret.state = "returned"
  /\ ret.year_response.errors
  /\ ret.year_response.data
  /\ AdmittedRepos(remote.user_data) # {}

\* ------------------------------------------------------------------------
\* C6: when the contributions response has a top-level errors key, even next
\* to a data key, the fetch yields None and generate_readme_content returns
\* the empty string and an empty record: nothing is rendered.
\* ------------------------------------------------------------------------
C6_FetchFailure ==
  (ret.state # "pending" /\ ~ret.year_response.errors /\ ret.contrib_response.errors) =>
    /\ ret.state = "returned"
    /\ ret.result.readme_content = EmptyString
    /\ ret.result.repos_data = EmptyDict
    /\ fetch_contributions_data(ret.contrib_response).outcome = "None"
    /\ Len(ret.result.requests) = 2

\* errors next to data that holds public contributions
C6_Witness ==
  /\ ret.state = "returned"
  /\ ~ret.year_response.errors
  /\ ret.contrib_response.errors
  /\ ret.contrib_response.data
  /\ AdmittedRepos(remote.user_data) # {}

\* ------------------------------------------------------------------------
\* C7: when both requests succeed and the payload has no qualifying
\* contribution, the document is the title line alone (not the empty
\* string); the empty string is returned only after a failed lookup or
\* fetch (an errors key, or a fetch that found no user).
\* ------------------------------------------------------------------------
TitleLine(username) ==
  <<"# ", get_text("categories.profile_git"), " : ", username, "\n">>

C7_TitleOnly ==
  /\ (Rendered /\ AdmittedRepos(remote.user_data) = {}) =>
       /\ ret.result.readme_content = TitleLine(call.username)
       /\ ret.result.readme_content # EmptyString
       /\ \A i \in 1..Len(OutputLines) :
            ~IsHeading(OutputLines[i]) /\ ~IsBullet(OutputLines[i])
  /\ (ret.state = "returned" /\ ret.result.readme_content = EmptyString) =>
       \/ ret.year_response.errors
       \/ ret.contrib_response.errors
       \/ ret.contrib_response.shape = "user_null"

\* a payload whose only entries are a private repository and a fork
C7_Witness ==
  /\ Rendered
  /\ AdmittedRepos(remote.user_data) = {}
  /\ {RepoP, RepoF} \subseteq PayloadRepos

\* ------------------------------------------------------------------------
\* C8: when the only qualifying contributions are pull requests to one
\* public, non-fork repository, in one or several blocks, the document has
\* the pull-request section only, with exactly one bullet, a link
\* [full_name](url).
\* ------------------------------------------------------------------------
OnlyPullRequestsTo(r) ==
  /\ Public(r)
  /\ \E b \in ProcessedBlocks(remote.user_data) : r \in ReposIn(b, PRField)
  /\ \A b \in ProcessedBlocks(remote.user_data) :
       \A f \in DOMAIN b.val.fields :
         \A x \in ReposIn(b, f) : Public(x) => (x = r /\ f = PRField)

HeadingLines == {i \in 1..Len(OutputLines) : IsHeading(OutputLines[i])}
BulletLines  == {i \in 1..Len(OutputLines) : IsBullet(OutputLines[i])}

C8_SinglePullRequest ==
  \A r \in Repositories :
    (Rendered /\ OnlyPullRequestsTo(r)) =>
      /\ \E h \in HeadingLines :
           /\ HeadingLines = {h}
           /\ OutputLines[h] = <<"## ", get_text("categories.pull_requests")>>
           /\ \E b \in BulletLines :
                /\ BulletLines = {b}
                /\ b > h
                /\ SubSeq(OutputLines[b], 1, 5)
                     = <<"- [", r.nameWithOwner, "](", r.url, ")">>

\* pull requests to the one repository in the current block and in a
\* historical block
C8_Witness ==
  /\ Rendered
  /\ OnlyPullRequestsTo(RepoA)
  /\ Cardinality({b \in ProcessedBlocks(remote.user_data) : RepoA \in ReposIn(b, PRField)}) = 2

\* ------------------------------------------------------------------------
\* C10: save_config with a username of the history moves it to the front,
\* without a duplicate and keeping the order of the other entries;
\* save_config with an 11th distinct username puts it at the front and drops
\* the last (oldest) entry.
\* ------------------------------------------------------------------------
Occurs(list, x) == \E i \in 1..Len(list) : list[i] = x
Without(list, x) == LET Keep(y) == y # x IN SelectSeq(list, Keep)
StoredHistory == file.data.username_history

C10_HistoryUpdate ==
  saved.called =>
    /\ Occurs(saved.read, saved.username) =>
         /\ StoredHistory = <<saved.username>> \o Without(saved.read, saved.username)
         /\ Len(StoredHistory) = Len(saved.read)
         /\ \A i, j \in 1..Len(StoredHistory) :
              StoredHistory[i] = StoredHistory[j] => i = j
    /\ (~Occurs(saved.read, saved.username) /\ Len(saved.read) = HistoryLimit) =>
         /\ StoredHistory = <<saved.username>> \o SubSeq(saved.read, 1, HistoryLimit - 1)
         /\ ~Occurs(StoredHistory, saved.read[HistoryLimit])

\* the 11th username is saved after an earlier username was saved again
C10_Witness ==
  /\ saved.called
  /\ Len(saved.read) = HistoryLimit
  /\ ~Occurs(saved.read, saved.username)
  /\ env.resaves > 0
  /\ saved.read[1] # CfgName(HistoryLimit)

\* ------------------------------------------------------------------------
\* C11: starting from an absent configuration file, after any sequence of
\* save_config calls the stored username_history has at most ten entries,
\* has no entry twice, is ordered by the last call of each username with the
\* most recent first, and begins with the stored username.
\* ------------------------------------------------------------------------
\* the position in the sequence of calls of the last call with username u
LastCall(u) ==
  CHOOSE i \in 1..Len(env.calls) :
    env.calls[i] = u /\ \A k \in (i + 1)..Len(env.calls) : env.calls[k] # u

C11_HistoryInvariant ==
  file.exists =>
    /\ Len(StoredHistory) <= HistoryLimit
    /\ \A i, j \in 1..Len(StoredHistory) : StoredHistory[i] = StoredHistory[j] => i = j
    /\ \A i \in 1..Len(StoredHistory) : Occurs(env.calls, StoredHistory[i])
    /\ \A i, j \in 1..Len(StoredHistory) :
         i < j => LastCall(StoredHistory[i]) > LastCall(StoredHistory[j])
    /\ \A k \in 1..Len(env.calls) :
         ~Occurs(StoredHistory, env.calls[k]) =>
           \A i \in 1..Len(StoredHistory) : LastCall(StoredHistory[i]) > k
    /\ StoredHistory[1] = file.data.username

\* more than ten usernames were saved, one of them more than once
C11_Witness ==
  /\ file.exists
  /\ Len(StoredHistory) = HistoryLimit
  /\ Len(env.calls) > HistoryLimit + 1
  /\ \E k \in 1..Len(env.calls) : ~Occurs(StoredHistory, env.calls[k])
  /\ \E k \in 1..Len(env.calls) : LastCall(env.calls[k]) # k

\* ------------------------------------------------------------------------
\* C12: test_github_auth returns true if and only if the response has no
\* top-level error list and has a non-empty viewer login; a response
\* without errors whose login is the empty string, or whose data or viewer
\* is missing, yields false.
\* ------------------------------------------------------------------------
\* the body the call received, when it received one
HasErrorList(response) == "errors" \in DOMAIN response.body.fields
\* data.viewer.login of the body, null when a key on the way is missing
LoginOf(response) ==
  LET top == response.body.fields
      d   == IF "data" \in DOMAIN top /\ top["data"].kind = "object"
             THEN top["data"].fields ELSE EmptyDict
      v   == IF "viewer" \in DOMAIN d /\ d["viewer"].kind = "object"
             THEN d["viewer"].fields ELSE EmptyDict
  IN  IF "login" \in DOMAIN v THEN v["login"] ELSE Null
NonEmptyLogin(response) ==
  LoginOf(response).kind = "string" /\ LoginOf(response).value # ""

C12_TrueIffLogin ==
  ret.state = "returned" =>
    (ret.value <=> (~HasErrorList(remote.response) /\ NonEmptyLogin(remote.response)))

\* ------------------------------------------------------------------------
\* C13: test_github_auth returns false, and raises nothing, on every
\* transport failure, on every body that is not JSON and on every error
\* payload, a null data or viewer included.
\* ------------------------------------------------------------------------
\* the answers C13 speaks of
IsObjectBody(response) ==
  response.transport = "ok" /\ response.is_json /\ response.body.kind = "object"
NullDataOrViewer(response) ==
  /\ IsObjectBody(response)
  /\ "data" \in DOMAIN response.body.fields
  /\ LET d == response.body.fields["data"]
     IN  \/ d = Null
         \/ d.kind = "object" /\ "viewer" \in DOMAIN d.fields /\ d.fields["viewer"] = Null
FailedAnswer(response) ==
  \/ response.transport # "ok"
  \/ ~response.is_json
  \/ IsObjectBody(response) /\ HasErrorList(response)
  \/ NullDataOrViewer(response)

C13_FalseNeverRaises ==
  (ret.state # "pending" /\ FailedAnswer(remote.response)) =>
    (ret.state = "returned" /\ ret.value = FALSE)

\* ------------------------------------------------------------------------
\* C14: generate_readme_content fails closed on a malformed response: when
\* the creation-year or the contributions response has no top-level errors
\* but is not JSON or lacks an expected nested field, it returns the empty
\* string with an empty record, and no exception reaches the caller.
\* ------------------------------------------------------------------------
IsMalformed(response) ==
  ~response.errors /\ (response.shape # "ok" \/ ~response.data)
\* the invocation got a malformed answer to one of the requests it made
GotMalformed ==
  /\ ret.state # "pending"
  /\ \/ IsMalformed(ret.year_response)
     \/ Len(ret.result.requests) = 2 /\ IsMalformed(ret.contrib_response)

C14_FailsClosed ==
  GotMalformed =>
    /\ ret.state = "returned"
    /\ ret.result.readme_content = EmptyString
    /\ ret.result.repos_data = EmptyDict

\* ------------------------------------------------------------------------
\* C15: for all creation_year and current_year the query has exactly one
\* unaliased current-year block and exactly one historical block for each
\* year y with creation_year <= y < current_year, and no other block; the
\* aliases are pairwise distinct and distinct from the current-year key;
\* when creation_year >= current_year the query has the current-year block
\* only.
\* ------------------------------------------------------------------------
\* block b asks for the calendar year y
CoversYear(b, y) ==
  /\ b.aliased
  /\ b.from = <<ToString(y), "-01-01T00:00:00Z">>
  /\ b.to = <<ToString(y), "-12-31T23:59:59Z">>

C15_QueryBlocks ==
  ret.state = "returned" =>
    LET query == ret.query
        blocks == 1..Len(query)
    IN  /\ Cardinality({i \in blocks : ~query[i].aliased}) = 1
        /\ \A i \in blocks : ~query[i].aliased =>
             query[i].alias = CurrentKey /\ query[i].fields = CurrentYearFields
        /\ \A y \in (CurrentYear - 2 * MaxSpan)..(CurrentYear + 2 * MaxSpan) :
             Cardinality({i \in blocks : CoversYear(query[i], y)}) =
               IF call.created_year <= y /\ y < call.current_year THEN 1 ELSE 0
        /\ \A i \in blocks : query[i].aliased =>
             \E y \in call.created_year..(call.current_year - 1) :
               CoversYear(query[i], y) /\ query[i].fields = YearFields
        /\ \A i, j \in blocks : query[i].alias = query[j].alias => i = j
        /\ \A i \in blocks : query[i].aliased => query[i].alias # CurrentKey
        /\ call.created_year >= call.current_year =>
             Len(query) = 1 /\ ~query[1].aliased

\* a query for an account created several years before current_year
C15_Witness ==
  /\ ret.state = "returned"
  /\ call.current_year - call.created_year >= 3
  /\ Len(ret.query) = call.current_year - call.created_year + 1
  /\ \E i \in 1..Len(ret.query) : CoversYear(ret.query[i], call.current_year - 1)

\* ------------------------------------------------------------------------
\* C16: no retries.  One invocation of generate_readme_content posts at
\* most one creation-year request and at most one contributions request;
\* the contributions request is posted only after a successful
\* creation-year lookup; after a failed lookup or a failed fetch no further
\* request is posted.
\* ------------------------------------------------------------------------
LookupSucceeded ==
  ~ret.year_response.errors /\ ret.year_response.data /\ ret.year_response.shape = "ok"
FetchSucceeded ==
  ~ret.contrib_response.errors /\ ret.contrib_response.data
    /\ ret.contrib_response.shape = "ok"

C16_NoRetry ==
  ret.state # "pending" =>
    LET requests == ret.result.requests
        YearAt    == {i \in 1..Len(requests) : requests[i].query = "createdAt"}
        ContribAt == {i \in 1..Len(requests) : requests[i].query = "contributions"}
    IN  /\ Cardinality(YearAt) <= 1
        /\ Cardinality(ContribAt) <= 1
        /\ \A i \in ContribAt : LookupSucceeded /\ \E j \in YearAt : j < i
        /\ ~LookupSucceeded => \A i \in 1..Len(requests) : i \in YearAt
        /\ (LookupSucceeded /\ ~FetchSucceeded) =>
             /\ Len(requests) = 2
             /\ ContribAt = {2}

\* the lookup succeeded and the fetch was answered with errors
C16_Witness ==
  /\ ret.state = "returned"
  /\ LookupSucceeded
  /\ ret.contrib_response.errors
  /\ ~ret.contrib_response.data
  /\ Len(ret.result.requests) = 2
  /\ ret.result.requests[1].query = "createdAt"
  /\ ret.result.requests[2].query = "contributions"

\* ------------------------------------------------------------------------
\* C17: save_config reads the file and writes it back without locking.
\* When the processes all read before any of them writes (and write one
\* after the other), the file ends as the record of the last writer, built
\* from the file as it was before: the username of another process is not
\* in the history and the comments of another process are not stored.
\* ------------------------------------------------------------------------
StepAt(p, step) ==
  CHOOSE i \in 1..Len(env.steps) : env.steps[i] = [proc |-> p, step |-> step]
AllDone == \A p \in Procs : env.procs[p].pc = "done"
\* every read comes before every open, and no process opens the file while
\* another has it open
ReadsThenWrites ==
  /\ AllDone
  /\ \A p, q \in Procs : StepAt(p, "read") < StepAt(q, "open")
  /\ \A p, q \in Procs :
       p # q => (StepAt(p, "dump") < StepAt(q, "open") \/ StepAt(q, "dump") < StepAt(p, "open"))
LastWriter == CHOOSE p \in Procs : StepAt(p, "dump") = Len(env.steps)
\* the update of process p is not in the file
HistoryEntryLost(p) ==
  ~Occurs(load_config(file).username_history, env.procs[p].username)
CommentsLost(p) ==
  get_user_comments(env.procs[p].username, load_config(file).user_configs)
    # env.procs[p].user_comments.value

C17_LastWriterWins ==
  ReadsThenWrites =>
    /\ file = save_config(env.initial, env.procs[LastWriter].username, "ghp_1", "light",
                          env.procs[LastWriter].user_comments, NoneValue)
    /\ \A p \in Procs :
         env.procs[p].username # env.procs[LastWriter].username =>
           /\ ~Occurs(load_config(env.initial).username_history, env.procs[p].username)
                => HistoryEntryLost(p)
           /\ ~env.procs[p].user_comments.is_none => CommentsLost(p)

\* two processes with different usernames read, then wrote one after the
\* other: the history entry and the comments of the first writer are gone
C17_Witness ==
  /\ ReadsThenWrites
  /\ \E p \in Procs :
       /\ p # LastWriter
       /\ env.procs[p].username # env.procs[LastWriter].username
       /\ ~env.procs[p].user_comments.is_none
       /\ HistoryEntryLost(p)
       /\ CommentsLost(p)
       /\ Occurs(load_config(file).username_history, env.procs[LastWriter].username)

\* ------------------------------------------------------------------------
\* C18: the document rendered for a username depends only on the comments
\* stored under that username: adding, editing or deleting a comment under
\* another username changes neither the comments stored under this
\* username (in the file and in the window) nor the document rendered for
\* it from any answer of the endpoint.
\* ------------------------------------------------------------------------
\* a step of add_comment, edit_comment or delete_comment
CommentStep == dialog.open /\ env'.comments = env.comments + 1

C18_OtherUsernameUntouched ==
  [][CommentStep =>
       \A username \in Usernames \ {dialog.username} :
         /\ get_user_comments(username, load_config(file').user_configs)
              = get_user_comments(username, load_config(file).user_configs)
         /\ get_user_comments(username, win'.user_configs)
              = get_user_comments(username, win.user_configs)
         /\ \A a \in AnswersAbout(username) :
              generate_readme(win', username, a.year_response, a.contrib_response)
                = generate_readme(win, username, a.year_response, a.contrib_response)]_vars

\* a comment was set under hubot after one was set and shown under octocat
C18_Witness ==
  /\ dialog.open
  /\ dialog.username = "hubot"
  /\ annot["hubot"]["b/r"].op = "set"
  /\ ~annot["hubot"]["b/r"].shown
  /\ annot["octocat"]["b/r"].op = "set"
  /\ annot["octocat"]["b/r"].shown
  /\ get_user_comments("hubot", load_config(file).user_configs) # EmptyDict
  /\ get_user_comments("octocat", load_config(file).user_configs) # EmptyDict

\* ------------------------------------------------------------------------
\* C19: deduplication is by repository full_name.  However many blocks,
\* fields and entries mention a repository, the document has at most one
\* bullet for a full_name, and no full_name is in two of the three output
\* sets (nor twice in one).
\* ------------------------------------------------------------------------
FullNames == {r.nameWithOwner : r \in Repositories}
NamedIn(set, name) == {t \in set : t[1] = name}
\* the number of (block, field, position) places where a repository of
\* that name occurs in the payload
Mentions(name) ==
  Cardinality({<<i, f, k>> \in (DOMAIN remote.user_data) \X CurrentYearFields \X (1..MaxEntries) :
                 /\ remote.user_data[i].val.kind = "object"
                 /\ f \in DOMAIN remote.user_data[i].val.fields
                 /\ k \in DOMAIN remote.user_data[i].val.fields[f]
                 /\ remote.user_data[i].val.fields[f][k].nameWithOwner = name})

\* at most one bullet of the lines and one member of the sets has the name
OneBulletPerName(lines, sets) ==
  \A name \in FullNames :
    /\ Cardinality({i \in DOMAIN lines :
                      IsBullet(lines[i]) /\ BulletName(lines[i]) = name}) <= 1
    /\ Cardinality(NamedIn(sets.repos_commit_only, name))
         + Cardinality(NamedIn(sets.repos_pr_only, name))
         + Cardinality(NamedIn(sets.repos_other, name)) <= 1

C19_OneBulletPerName == Rendered => OneBulletPerName(OutputLines, OutputSets)

\* a repository mentioned in two blocks, under commits and under direct
\* contributions, has its one bullet
C19_Witness ==
  /\ Rendered
  /\ Mentions("b/r") >= 2
  /\ \E b1, b2 \in ProcessedBlocks(remote.user_data) :
       b1 # b2 /\ RepoA \in ReposIn(b1, CommitField) /\ RepoA \in ReposIn(b2, RepoField)
  /\ Cardinality({i \in BulletLines : BulletName(OutputLines[i]) = "b/r"}) = 1

\* ------------------------------------------------------------------------
\* C20 as stated: for every processed block, current-year or historical,
\* and every contribution-type field present in it (commits, pull
\* requests, issues, reviews, direct contributions), each public, non-fork
\* repository of the field is a member of one of the three output sets.
\* ------------------------------------------------------------------------
InOutputSets(r) ==
  RepoTuple(r) \in OutputSets.repos_commit_only \cup OutputSets.repos_pr_only
                     \cup OutputSets.repos_other

C20_EveryFieldAdmitted ==
  Rendered =>
    \A b \in ProcessedBlocks(remote.user_data) :
      \A f \in FieldsPresent(b) \cap CurrentYearFields :
        \A r \in ReposIn(b, f) : Public(r) => InOutputSets(r)

\* ------------------------------------------------------------------------
\* C20, amended: in the current-year block every one of the five fields,
\* and in a historical block the commit, pull-request and direct
\* contribution fields, admit each of their public, non-fork repositories
\* into one of the three output sets; an issue or review field of a
\* historical block is not read, so a repository found only there is in no
\* output set.
\* ------------------------------------------------------------------------
C20_FieldsReadAdmitted ==
  Rendered =>
    /\ \A b \in ProcessedBlocks(remote.user_data) :
         \A f \in FieldsPresent(b) \cap ReadFields(b) :
           \A r \in ReposIn(b, f) : Public(r) => InOutputSets(r)
    /\ \A r \in Repositories :
         (\A b \in ProcessedBlocks(remote.user_data) : r \notin ReposRead(b))
           => ~InOutputSets(r)

\* an issue of the current-year block is admitted, a direct contribution of
\* a historical block is admitted, and the issue of a historical block is
\* not
C20_Witness ==
  /\ Rendered
  /\ \E b \in ProcessedBlocks(remote.user_data) :
       b.key = CurrentKey /\ RepoA \in ReposIn(b, IssueField) /\ InOutputSets(RepoA)
  /\ \E b \in ProcessedBlocks(remote.user_data) :
       b.key # CurrentKey /\ RepoB \in ReposIn(b, IssueField) /\ ~InOutputSets(RepoB)

\* ------------------------------------------------------------------------
\* C21: the aggregator is order-independent and insensitive to duplicates:
\* permuting the blocks of the payload, permuting the entries of a field,
\* or repeating an entry gives the same three output sets.
\* ------------------------------------------------------------------------
\* the sequences with the elements of seq in another order
PermsOf(seq) ==
  {[i \in 1..Len(seq) |-> seq[p[i]]] : p \in Permutations(1..Len(seq))}
\* the payload with the items of field f of block i replaced
WithItems(user_data, i, f, items) ==
  [user_data EXCEPT ![i] = [@ EXCEPT !.val = [@ EXCEPT !.fields = [@ EXCEPT ![f] = items]]]]
\* the (block, field) places of a payload
Places(user_data) ==
  {pl \in (DOMAIN user_data) \X CurrentYearFields :
     user_data[pl[1]].val.kind = "object" /\ pl[2] \in DOMAIN user_data[pl[1]].val.fields}
ItemsAt(user_data, pl) == user_data[pl[1]].val.fields[pl[2]]
BlocksPermuted(user_data) == PermsOf(user_data)
EntriesPermuted(user_data) ==
  UNION {{WithItems(user_data, pl[1], pl[2], items) : items \in PermsOf(ItemsAt(user_data, pl))} :
           pl \in Places(user_data)}
EntryRepeated(user_data) ==
  UNION {{WithItems(user_data, pl[1], pl[2],
                    Append(ItemsAt(user_data, pl), ItemsAt(user_data, pl)[k]))
            : k \in DOMAIN ItemsAt(user_data, pl)} : pl \in Places(user_data)}

C21_OrderIndependent ==
  Rendered =>
    \A v \in BlocksPermuted(remote.user_data) \cup EntriesPermuted(remote.user_data)
                \cup EntryRepeated(remote.user_data) :
      extract_repositories_data(v) = OutputSets

\* two different public repositories in one commit field of a payload of
\* three blocks
C21_Witness ==
  /\ Rendered
  /\ \E pl \in Places(remote.user_data) :
       pl[2] = CommitField /\ ItemsAt(remote.user_data, pl) \in {<<RepoA, RepoB>>, <<RepoB, RepoA>>}
  /\ Len(remote.user_data) >= 3
  /\ Cardinality(BlocksPermuted(remote.user_data)) >= 6
  /\ OutputSets.repos_commit_only # {}

\* ------------------------------------------------------------------------
\* C22: adding to a payload a key without the contribution-collection
\* prefix, a prefixed key whose value is null or empty, or a prefixed block
\* whose fields are all empty leaves the three output sets as they are.
\* ------------------------------------------------------------------------
\* a prefixed key that no payload of the model has
FreshKey == YearKey(CurrentYear - 3)
NoOpBlocks ==
  { [key |-> <<"login">>, val |-> Object([f \in {CommitField} |-> <<RepoA>>])],
    [key |-> <<"login">>, val |-> Null],
    [key |-> FreshKey, val |-> Null],
    [key |-> FreshKey, val |-> Object(EmptyDict)],
    [key |-> FreshKey, val |-> Object([f \in YearFields |-> <<>>])],
    [key |-> FreshKey, val |-> Object([f \in CurrentYearFields |-> <<>>])] }
\* the payload with block b put in after its first i blocks
InsertAt(user_data, i, b) ==
  SubSeq(user_data, 1, i) \o <<b>> \o SubSeq(user_data, i + 1, Len(user_data))

C22_NoOpKeys ==
  Rendered =>
    \A b \in NoOpBlocks : \A i \in 0..Len(remote.user_data) :
      extract_repositories_data(InsertAt(remote.user_data, i, b)) = OutputSets

\* the payload itself begins with a key without the prefix whose value has
\* a repository that is in no output set, and the sets are not all empty
C22_Witness ==
  /\ Rendered
  /\ Len(remote.user_data) >= 2
  /\ remote.user_data[1].key = <<"login">>
  /\ RepoA \in ReposIn(remote.user_data[1], CommitField)
  /\ ~InOutputSets(RepoA)
  /\ InOutputSets(RepoB)
  /\ extract_repositories_data(Tail(remote.user_data)) = OutputSets

\* ------------------------------------------------------------------------
\* C23: in the rendered document the heading of a category is present if
\* and only if its set is non-empty, the sections come in the order
\* commit_only, pull_request, other, and each section has exactly one
\* bullet per repository of its set (and no other line is a heading or a
\* bullet).
\* ------------------------------------------------------------------------
Categories ==
  << [key |-> "categories.commit_only",         set |-> "repos_commit_only"],
     [key |-> "categories.pull_requests",       set |-> "repos_pr_only"],
     [key |-> "categories.other_contributions", set |-> "repos_other"] >>
BulletRepo(line) == <<line[2], line[4]>>
\* in the lines of a document: the headings of category k, and the bullets
\* between heading h and the next heading
HeadingOf(lines, headings, k) ==
  {h \in headings : lines[h] = <<"## ", get_text(Categories[k].key)>>}
SectionBullets(headings, bullets, h) ==
  {b \in bullets : b > h /\ \A h2 \in headings : h2 > h => b < h2}

SectionsOf(lines, headings, bullets, sets) ==
  /\ \A k \in 1..3 :
       Cardinality(HeadingOf(lines, headings, k))
         = IF sets[Categories[k].set] # {} THEN 1 ELSE 0
  /\ \A h \in headings : \E k \in 1..3 : h \in HeadingOf(lines, headings, k)
  /\ \A j, k \in 1..3 :
       j < k => \A hj \in HeadingOf(lines, headings, j), hk \in HeadingOf(lines, headings, k) :
                  hj < hk
  /\ \A k \in 1..3 : \A h \in HeadingOf(lines, headings, k) :
       /\ Cardinality(SectionBullets(headings, bullets, h))
            = Cardinality(sets[Categories[k].set])
       /\ {BulletRepo(lines[b]) : b \in SectionBullets(headings, bullets, h)}
            = sets[Categories[k].set]
  /\ \A b \in bullets : \E h \in headings : b \in SectionBullets(headings, bullets, h)

SectionsOfLines(lines, sets) ==
  SectionsOf(lines, {i \in 1..Len(lines) : IsHeading(lines[i])},
             {i \in 1..Len(lines) : IsBullet(lines[i])}, sets)

C23_Sections == Rendered => SectionsOfLines(OutputLines, OutputSets)

\* a document with the pull-request section and the other section, and no
\* commit section
C23_Witness ==
  /\ Rendered
  /\ OutputSets.repos_commit_only = {}
  /\ OutputSets.repos_pr_only # {}
  /\ OutputSets.repos_other # {}
  /\ Cardinality(HeadingLines) = 2
  /\ Cardinality(BulletLines) = 2

\* ------------------------------------------------------------------------
\* C24: the usernames of the configuration have passed validation.
\* ------------------------------------------------------------------------
\* C24: every entry of the persisted username_history, and the persisted
\* last-used username, is a non-empty username that test_github_auth has
\* accepted in an earlier on_validate.
C24_HistoryOnlyValidated ==
  file.exists =>
    LET cfg == load_config(file)
    IN  /\ cfg.username # "" /\ cfg.username \in hist.passed
        /\ \A i \in DOMAIN cfg.username_history :
             cfg.username_history[i] # "" /\ cfg.username_history[i] \in hist.passed

\* ------------------------------------------------------------------------
\* C25: a validation that fails.
\* ------------------------------------------------------------------------
\* C25: a step of on_validate that ends on an empty field or on credentials
\* that test_github_auth refused leaves config.json as it was and sends no
\* request for the creation year or the contributions; after refused
\* credentials the raw text is empty and both buttons are disabled.
C25_FailedValidation ==
  [][event'.kind \in {"fill_both_fields", "invalid_credentials"} =>
       /\ file' = file
       /\ event'.requests = <<>>
       /\ event'.kind = "invalid_credentials" =>
            /\ win'.raw_text = EmptyString
            /\ ~win'.copy_btn_enabled
            /\ ~win'.comments_btn_enabled]_vars

\* credentials are refused in a window that shows a document: the file has
\* been written by the earlier validation, the text is gone
C25_Witness ==
  /\ event.kind = "invalid_credentials"
  /\ event.requests = <<>>
  /\ file.exists
  /\ win.last_repos_data # EmptyDict
  /\ win.raw_text = EmptyString

\* ------------------------------------------------------------------------
\* C26: the two buttons and the record of the generation.
\* ------------------------------------------------------------------------
\* C26: copy_btn_enabled and comments_btn_enabled are equal; they are true
\* only if, in this window, a generation returned a document after the last
\* refused credentials, and then last_repos_data is the record that the most
\* recent such generation returned.
C26_ButtonsFollowGeneration ==
  /\ win.copy_btn_enabled = win.comments_btn_enabled
  /\ win.copy_btn_enabled =>
       /\ hist.generation.ok
       /\ win.last_repos_data = hist.generation.repos_data

\* the buttons are enabled after a second generation, for another username
\* than the first
C26_Witness ==
  /\ win.copy_btn_enabled /\ win.comments_btn_enabled
  /\ hist.generation.ok
  /\ hist.generation.username = "hubot"
  /\ hist.passed = {"octocat", "hubot"}
  /\ win.last_repos_data = hist.generation.repos_data
  /\ win.last_repos_data # EmptyDict

\* ------------------------------------------------------------------------
\* C27: a validation whose generation fails.
\* ------------------------------------------------------------------------
\* C27: a step of on_validate in which test_github_auth accepted the
\* credentials and generate_readme returned the empty document leaves the
\* raw text, last_repos_data and the two flags as they were, and a document
\* shown after it is the document of the most recent generation that
\* succeeded, generated for the username that was just validated.
C27_FailedGenerationKeepsDocument ==
  [][event'.kind = "github_data_error" =>
       /\ win'.raw_text = win.raw_text
       /\ win'.last_repos_data = win.last_repos_data
       /\ win'.copy_btn_enabled = win.copy_btn_enabled
       /\ win'.comments_btn_enabled = win.comments_btn_enabled
       /\ win'.raw_text # EmptyString =>
            /\ hist'.generation.ok
            /\ win'.raw_text = hist'.generation.readme_content
            /\ hist'.generation.username = event'.username]_vars

\* ------------------------------------------------------------------------
\* C28: what save_config leaves alone.
\* ------------------------------------------------------------------------
\* the user_configs entry of a username, empty when there is none
EntryOf(user_configs, username) == DictGet(user_configs, username, EmptyDict)

\* C28: a call of save_config without comments writes back the user_configs
\* it read; a call with comments for username u writes them as the comments
\* of u and leaves the rest of the entry of u and the entries of the other
\* usernames as they were; a call without language writes back the language
\* it read.
C28_SaveConfigFrame ==
  [][env'.calls # env.calls =>
       LET before == load_config(file).user_configs
           after  == load_config(file').user_configs
           u      == saved'.username
       IN  /\ saved'.user_comments.is_none => after = before
           /\ ~saved'.user_comments.is_none =>
                /\ DOMAIN after = DOMAIN before \cup {u}
                /\ \A k \in DOMAIN before \ {u} : after[k] = before[k]
                /\ after[u]["comments"] = saved'.user_comments.value
                /\ DOMAIN after[u] = DOMAIN EntryOf(before, u) \cup {"comments"}
                /\ \A key \in DOMAIN EntryOf(before, u) \ {"comments"} :
                     after[u][key] = before[u][key]
           /\ saved'.language.is_none /\ file.exists =>
                load_config(file').language = load_config(file).language]_vars

\* the comments of a second username were saved without a language, after
\* those of a first username and after a language was stored
C28_Witness ==
  /\ saved.called
  /\ saved.username = CfgName(2)
  /\ ~saved.user_comments.is_none
  /\ saved.language.is_none
  /\ load_config(file).language = "fr"
  /\ DOMAIN load_config(file).user_configs = {CfgName(1), CfgName(2)}

\* ------------------------------------------------------------------------
\* C9: annotation round trip.  For a repository of the output sets, once a
\* non-blank comment is set for (username, repository) the document rendered
\* for that username has the bullet of the repository followed by the
\* separator and the comment; once the comment is deleted, the document
\* rendered next has the bullet without suffix.
\* ------------------------------------------------------------------------
ShownLines == SplitLines(win.raw_text)
ShownRepos ==
  win.last_repos_data.repos_commit_only \cup win.last_repos_data.repos_pr_only
    \cup win.last_repos_data.repos_other

C9_AnnotationRoundTrip ==
  event.kind = "rendered" =>
    \A r \in ShownRepos :
      r[1] \in AnnotNames =>
        LET a == annot[event.username][r[1]]
            link == <<"- [", r[1], "](", r[2], ")">>
            bullets == {i \in 1..Len(ShownLines) :
                          IsBullet(ShownLines[i]) /\ BulletName(ShownLines[i]) = r[1]}
        IN  /\ Cardinality(bullets) = 1
            /\ a.op = "set" =>
                 \A i \in bullets : ShownLines[i] = link \o <<CommentSep, a.text>>
            /\ a.op = "deleted" =>
                 \A i \in bullets : ShownLines[i] = link

\* a comment was set, rendered with its suffix, deleted, and the document
\* was rendered again
C9_Witness ==
  /\ event.kind = "rendered"
  /\ \E r \in ShownRepos :
       /\ r[1] \in AnnotNames
       /\ annot[event.username][r[1]].op = "deleted"
       /\ annot[event.username][r[1]].shown

====
